---------------------------- MODULE Spec2Model ----------------------------
(***************************************************************************)
(* A model of the YouTube channel discovery scripts main.py and            *)
(* main_deck-brush.py: the retrying HTTP helper yt_get, the paginated      *)
(* search (search_channels, search_channels_multi), the batched detail     *)
(* lookup (get_channels_details), the latest-upload lookup                 *)
(* (get_latest_upload_published_at) and the filter loop of main.           *)
(*                                                                         *)
(* Python values are rendered as follows.  A dict is a function from its   *)
(* keys (strings) to its values, so `d.get(k)` is a test of k \in DOMAIN d.*)
(* An optional value is <<>> (None) or <<x>>.  A text that is only ever    *)
(* printed (a URL, an exception's repr) is the structure it was formatted  *)
(* from, so that "the text contains the API key" can be asked of it.       *)
(***************************************************************************)
EXTENDS Integers, Sequences, FiniteSets, TLC

VARIABLES
    API_KEY,    \* the module global read from the environment ("" when unset)
    yt,         \* the frame of the yt_get call in progress (SpecYt)
    stderr,     \* what warn() has printed for that call (SpecYt)
    sc,         \* the frame of the search_channels call in progress (SpecSearch)
    ms,         \* two calls of search_channels_multi side by side (SpecMulti)
    \* main() of one run (Spec):
    script,     \* which of the two scripts runs
    pc,         \* where main is
    exit_code,  \* the argument of sys.exit, None while none was called
    latest_after_dt,  \* the recency cutoff, None until line 217 has run
    multi,      \* the frame of search_channels_multi
    channel_ids,
    det,        \* the frame of get_channels_details
    playlists,  \* what the API holds for the uploads playlist of each channel described
    ch_i,       \* the number of items of `details` the filter loop has taken
    results,
    seen,       \* per item taken by the filter loop: what the pass did
    stdout,     \* the lines printed to standard output
    csv,        \* the rows save_csv wrote, None while it was not called
    calls,      \* the yt_get calls made so far: the call site, the unit of work
                \* (keyword, batch or item number) and whether an attempt was answered 200
    warned      \* the number of warn() calls

ytVars == <<yt, stderr>>
mainVars == <<script, pc, exit_code, latest_after_dt, multi, channel_ids,
              det, playlists, ch_i, results, seen, stdout, csv, calls, warned>>
vars == <<API_KEY, yt, stderr, sc, ms, mainVars>>

\* The value of a variable that a specification does not use.
Unused == <<>>
MainUnused ==
    /\ script = Unused /\ pc = Unused /\ exit_code = Unused
    /\ latest_after_dt = Unused /\ multi = Unused
    /\ channel_ids = Unused /\ det = Unused /\ playlists = Unused /\ ch_i = Unused
    /\ results = Unused /\ seen = Unused /\ stdout = Unused /\ csv = Unused
    /\ calls = Unused /\ warned = Unused

-----------------------------------------------------------------------------
(* Values *)

None == <<>>
Some(x) == <<x>>

BASE == "https://www.googleapis.com/youtube/v3"

\* The credential a run is started with; "" stands for an unset variable.
KeyValue == "AIza-credential"
NoKey == ""

-----------------------------------------------------------------------------
(* requests.get as yt_get sees it *)

\* The HTTP statuses and the network-level exceptions one attempt can end in.
Statuses == {200, 304, 404, 500}
ExcClasses == {"ReadTimeout", "ConnectionError"}

Http(s, body) == [kind |-> "response", status_code |-> s, json |-> body]
Raises(c) == [kind |-> "exception", cls |-> c]

\* The URL requests prepares from f"{BASE}/{path}" and params: the query
\* string carries every parameter handed to requests.get.
Url(path, params) == [base |-> BASE, path |-> path, query |-> params]

\* The Response object of an attempt that got an HTTP answer.
Response(path, params, o) ==
    [status_code |-> o.status_code,
     url |-> Url(path, params),
     text |-> [body |-> "error body", status |-> o.status_code]]

\* bool(resp) for a requests.Response is resp.ok: no 4xx/5xx status.
Truthy(resp) == resp.status_code < 400

\* repr(e) of a RequestException: a connection error quotes the URL it could
\* not reach (urllib3's "Max retries exceeded with url: ..."), a read
\* timeout quotes the host and the timeout only.
ExcRepr(path, params, o) ==
    [cls |-> o.cls,
     url |-> IF o.cls = "ConnectionError" THEN Some(Url(path, params)) ELSE None]

-----------------------------------------------------------------------------
(* yt_get *)

\* range(4): the number of passes of the retry loop.
Attempts == 4

\* params = {**params, "key": API_KEY}
WithKey(params, key) == [k \in DOMAIN params \cup {"key"} |->
                            IF k = "key" THEN key ELSE params[k]]

\* safe_params = {k: v for k, v in params.items() if k != "key"}
SafeParams(params) == [k \in DOMAIN params \ {"key"} |-> params[k]]

\* The frame on entry: lines 54-56.  requests and sleeps record what the call
\* has done (each requests.get with its outcome, each time.sleep with 2 ** i).
YtEnter(path, params, key) ==
    [path |-> path, params |-> WithKey(params, key), i |-> 0,
     last_resp |-> None, last_exc |-> None,
     requests |-> <<>>, sleeps |-> <<>>, pc |-> "loop", ret |-> None]

\* time.sleep((2 ** i) + random.uniform(0, 0.5)), the last line of the loop body.
Sleep(st) == [st EXCEPT !.sleeps = Append(@, 2 ^ st.i), !.i = @ + 1]

YtIterRetries200(st, o) ==
    LET sent == [st EXCEPT !.requests = Append(@, o)] IN
    IF o.kind = "response"
    THEN Sleep([sent EXCEPT !.last_resp = Some(Response(st.path, st.params, o))])
    ELSE Sleep([sent EXCEPT !.last_exc = Some(ExcRepr(st.path, st.params, o))])

\* One pass of the loop body (lines 58-65) whose requests.get ends in o.
YtIter(st, o) ==
    LET sent == [st EXCEPT !.requests = Append(@, o)] IN
    IF o.kind = "response"
    THEN IF o.status_code = 200
         THEN [sent EXCEPT !.pc = "returned", !.ret = Some(o.json)]
         ELSE Sleep([sent EXCEPT !.last_resp = Some(Response(st.path, st.params, o))])
    ELSE Sleep([sent EXCEPT !.last_exc = Some(ExcRepr(st.path, st.params, o))])

\* `x if last_resp else y`: last_resp is tested for truth, not for None.
HasResp(st) == st.last_resp # None /\ Truthy(st.last_resp[1])

\* Lines 66-74: the value returned once the loop has run out.
YtErrorValue(st) ==
    [__error__ |-> TRUE,
     __http_status |-> IF HasResp(st) THEN Some(st.last_resp[1].status_code) ELSE None,
     __url |-> IF HasResp(st) THEN st.last_resp[1].url
               ELSE [base |-> BASE, path |-> st.path, query |-> <<>>],
     __text |-> IF HasResp(st) THEN Some(st.last_resp[1].text) ELSE None,
     __exc |-> st.last_exc,
     __params |-> SafeParams(st.params)]

YtExhaust(st) == [st EXCEPT !.pc = "returned", !.ret = Some(YtErrorValue(st))]

\* resp.get("__error__")
IsError(resp) == "__error__" \in DOMAIN resp /\ resp["__error__"]

\* warn(tag, resp): the five things the f-string prints.
WarnLine(tag, resp) ==
    [tag |-> tag, status |-> resp["__http_status"], url |-> resp["__url"],
     exc |-> resp["__exc"], body |-> resp["__text"], params |-> resp["__params"]]

\* The whole loop against the outcomes os its attempts end in, in order; a
\* server that has run out of scripted outcomes keeps timing out.
RECURSIVE YtRun(_, _)
YtRun(st, os) ==
    IF st.pc = "returned" THEN st
    ELSE IF st.i >= Attempts THEN YtExhaust(st)
    ELSE YtRun(YtIter(st, IF os = <<>> THEN Raises("ReadTimeout") ELSE Head(os)),
               IF os = <<>> THEN os ELSE Tail(os))

\* yt_get(path, params) as one step: the value it returns.
yt_get(path, params, key, os) == YtRun(YtEnter(path, params, key), os).ret[1]

\* The attempt outcomes a call made by the stages is run against: answered
\* at once, answered after two failed attempts, and four ways of running out.
Schedules(body) ==
    LET e == [error |-> "body"] IN
    { <<Http(200, body)>>,
      <<Raises("ReadTimeout"), Http(500, e), Http(200, body)>>,
      <<Http(500, e), Http(500, e), Http(500, e), Http(500, e)>>,
      <<Http(404, e), Http(404, e), Http(404, e), Http(404, e)>>,
      <<Raises("ConnectionError"), Raises("ConnectionError"),
        Raises("ReadTimeout"), Raises("ReadTimeout")>>,
      <<Http(304, e), Raises("ReadTimeout"), Http(500, e), Http(304, e)>> }

-----------------------------------------------------------------------------
(* The four places yt_get is called from, with the parameters they pass. *)

CallSites ==
    { [tag |-> "channels.list (sanity)", path |-> "channels",
       params |-> [part |-> "id", id |-> "UC_x5XG1OV2P6uZZ5FSM9Ttw"]],
      [tag |-> "search.list", path |-> "search",
       params |-> [part |-> "snippet", q |-> "kw", type |-> "channel",
                   maxResults |-> "50", regionCode |-> "JP",
                   relevanceLanguage |-> "ja", pageToken |-> "None"]],
      [tag |-> "channels.list", path |-> "channels",
       params |-> [part |-> "statistics,snippet,contentDetails", id |-> "c1,c2"]],
      [tag |-> "playlistItems.list", path |-> "playlistItems",
       params |-> [part |-> "snippet,contentDetails", playlistId |-> "UUc1",
                   maxResults |-> "1"]] }

\* What one attempt of a call can end in.
Bodies == {[items |-> <<>>], [items |-> <<"item">>]}
Outcomes ==
    {Http(s, b) : s \in Statuses \ {200}, b \in {[items |-> <<>>]}}
        \cup {Http(200, b) : b \in Bodies}
        \cup {Raises(c) : c \in ExcClasses}

-----------------------------------------------------------------------------
(* SpecYt: one call of yt_get from one of its call sites, attempt by attempt,
   followed by the caller's warn() when the call returned an error value. *)

InitYt ==
    /\ API_KEY = KeyValue
    /\ \E c \in CallSites :
         yt = [site |-> c.tag, frame |-> YtEnter(c.path, c.params, API_KEY)]
    /\ stderr = <<>>
    /\ sc = Unused /\ ms = Unused /\ MainUnused

\* One pass of `for i in range(4)`.
YtAttempt ==
    /\ yt.frame.pc = "loop"
    /\ yt.frame.i < Attempts
    /\ \E o \in Outcomes : yt' = [yt EXCEPT !.frame = YtIter(@, o)]
    /\ UNCHANGED <<API_KEY, stderr, sc, ms, mainVars>>

\* The loop ran out: build and return the error value.
YtReturnError ==
    /\ yt.frame.pc = "loop"
    /\ yt.frame.i >= Attempts
    /\ yt' = [yt EXCEPT !.frame = YtExhaust(@)]
    /\ UNCHANGED <<API_KEY, stderr, sc, ms, mainVars>>

\* The caller's `if resp.get("__error__"): warn(tag, resp)`.
CallerWarn ==
    /\ yt.frame.pc = "returned"
    /\ IsError(yt.frame.ret[1])
    /\ stderr = <<>>
    /\ stderr' = Append(stderr, WarnLine(yt.site, yt.frame.ret[1]))
    /\ UNCHANGED <<API_KEY, yt, sc, ms, mainVars>>

NextYt == YtAttempt \/ YtReturnError \/ CallerWarn

SpecYt == InitYt /\ [][NextYt]_vars

-----------------------------------------------------------------------------
(* search_channels *)

\* The channel ids and the continuation tokens the API answers with.
Ids == {"c1", "c2"}
Tokens == {"T1", "T2"}

RECURSIVE SetToSeq(_)
SetToSeq(S) == IF S = {} THEN <<>>
               ELSE LET x == CHOOSE x \in S : TRUE IN <<x>> \o SetToSeq(S \ {x})

\* A search.list page: its items, with or without a nextPageToken.  The last
\* two pages hold an item without a snippet and one without a channelId.
SearchItem(id) == [snippet |-> [channelId |-> id]]
SearchBodies ==
    {[items |-> [k \in 1..Len(SetToSeq(S)) |-> SearchItem(SetToSeq(S)[k])]] : S \in SUBSET Ids}
    \cup {[items |-> [k \in 1..Len(SetToSeq(S)) |-> SearchItem(SetToSeq(S)[k])],
           nextPageToken |-> t] : S \in SUBSET Ids, t \in Tokens}
    \cup {[items |-> <<[kind |-> "youtube#searchResult"], SearchItem("c2")>>,
           nextPageToken |-> "T1"],
          [items |-> <<[snippet |-> [title |-> "no id"]]>>],
          [kind |-> "youtube#searchListResponse"]}

\* resp.get("items", [])
ItemsOf(resp) == IF "items" \in DOMAIN resp THEN resp.items ELSE <<>>

\* Lines 116-120: the channel ids of a page's items.
PageIds(resp) ==
    {ItemsOf(resp)[k].snippet.channelId :
        k \in {j \in 1..Len(ItemsOf(resp)) :
                  /\ "snippet" \in DOMAIN ItemsOf(resp)[j]
                  /\ "channelId" \in DOMAIN ItemsOf(resp)[j].snippet
                  /\ ItemsOf(resp)[j].snippet.channelId # ""}}

\* resp.get("nextPageToken"), None when absent.
NextPageToken(resp) ==
    IF "nextPageToken" \in DOMAIN resp THEN Some(resp.nextPageToken) ELSE None

\* The frame on entry: lines 101-102.  calls records the page token each
\* yt_get call carried and what it returned.
SearchEnter(keyword, max_pages, region_code) ==
    [keyword |-> keyword, max_pages |-> max_pages, region_code |-> region_code,
     ids |-> {}, page_token |-> None, passes |-> 0, pc |-> "loop",
     calls |-> <<>>, warned |-> 0]

SearchParams(s) ==
    [part |-> "snippet", q |-> s.keyword, type |-> "channel", maxResults |-> "50",
     regionCode |-> s.region_code, relevanceLanguage |-> "ja",
     pageToken |-> s.page_token]

\* `for _ in range(max_pages)` has another pass to make.
SearchMore(s) == s.pc = "loop" /\ s.passes < s.max_pages

\* The ids a page adds to the set: lines 116-120.
SearchAdd(ids, resp) == ids \cup PageIds(resp)

SearchFailedForgets(s) == [s EXCEPT !.warned = @ + 1, !.pc = "returned", !.ids = {}]

\* The frame after a page that failed: warn and break (lines 113-115).
SearchFailed(s) == [s EXCEPT !.warned = @ + 1, !.pc = "returned"]

\* One pass of the loop body (lines 104-123); os is what the attempts of its
\* yt_get call end in.
SearchIter(s, key, os) ==
    LET resp == yt_get("search", SearchParams(s), key, os)
        called == [s EXCEPT !.passes = @ + 1,
                            !.calls = Append(@, [page_token |-> s.page_token,
                                                 resp |-> resp])]
    IN  IF IsError(resp) THEN SearchFailed(called)
        ELSE LET added == [called EXCEPT !.ids = SearchAdd(@, resp),
                                         !.page_token = NextPageToken(resp)]
             IN  IF NextPageToken(resp) = None \/ NextPageToken(resp) = Some("")
                 THEN [added EXCEPT !.pc = "returned"]
                 ELSE added

\* The loop is over: `return list(ids)`.
SearchLeave(s) == [s EXCEPT !.pc = "returned"]

\* search_channels as one step: every pass, the k-th against oss[k].
RECURSIVE SearchRun(_, _, _)
SearchRun(s, key, oss) ==
    IF SearchMore(s) THEN SearchRun(SearchIter(s, key, Head(oss)), key, Tail(oss))
    ELSE SearchLeave(s)

-----------------------------------------------------------------------------
(* SpecSearch: one call of search_channels, page by page. *)

\* The largest max_pages a call is started with.
MaxPages == 2

InitSearch ==
    /\ API_KEY = KeyValue
    /\ \E m \in 1..MaxPages : sc = SearchEnter("kw1", m, "JP")
    /\ yt = Unused /\ stderr = Unused /\ ms = Unused /\ MainUnused

SearchPage ==
    /\ SearchMore(sc)
    /\ \E body \in SearchBodies : \E os \in Schedules(body) :
          sc' = SearchIter(sc, API_KEY, os)
    /\ UNCHANGED <<API_KEY, yt, stderr, ms, mainVars>>

SearchReturn ==
    /\ sc.pc = "loop" /\ ~SearchMore(sc)
    /\ sc' = SearchLeave(sc)
    /\ UNCHANGED <<API_KEY, yt, stderr, ms, mainVars>>

NextSearch == SearchPage \/ SearchReturn

SpecSearch == InitSearch /\ [][NextSearch]_vars

-----------------------------------------------------------------------------
(* search_channels_multi *)

\* STOP_AFTER_N_RESULTS is 200 in both scripts; the model runs it scaled down
\* so that the few channel ids of the model reach STOP_AFTER_N_RESULTS * 3.
STOP_AFTER_N_RESULTS == 1

\* The frame on entry: line 129.
MultiEnter(keywords, max_pages, region_code) ==
    [keywords |-> keywords, max_pages |-> max_pages, region_code |-> region_code,
     all_ids |-> {}, k |-> 0, pc |-> "loop"]

\* `for kw in keywords` has another keyword to take.
MultiMore(m) == m.pc = "loop" /\ m.k < Len(m.keywords)

\* The keyword the next pass searches.
MultiKeyword(m) == m.keywords[m.k + 1]

MultiUpdateReplaces(all_ids, found) == found

\* all_ids.update(found)
MultiUpdate(all_ids, found) == all_ids \cup found

MultiStopNever(all_ids) == FALSE

\* if len(all_ids) >= STOP_AFTER_N_RESULTS * 3: break
MultiStop(all_ids) == Cardinality(all_ids) >= STOP_AFTER_N_RESULTS * 3

\* One pass of the loop body (lines 131-134), found being what
\* search_channels returned for the keyword.
MultiIter(m, found) ==
    LET all == MultiUpdate(m.all_ids, found) IN
    [m EXCEPT !.all_ids = all, !.k = @ + 1,
              !.pc = IF MultiStop(all) THEN "returned" ELSE @]

\* The loop is over: `return list(all_ids)`.
MultiLeave(m) == [m EXCEPT !.pc = "returned"]

-----------------------------------------------------------------------------
(* SpecMulti: search_channels_multi called twice, on a keyword list and on a
   permutation of it, search_channels returning for each keyword the same
   ids in both calls. *)

MultiKeywords == <<"kw1", "kw2", "kw3">>
\* The ids search_channels can return for them.
MultiIds == {"c1", "c2", "c3", "c4"}

\* The orders a list can be put in.
Orders(q) ==
    {p \in [1..Len(q) -> {q[k] : k \in 1..Len(q)}] :
        \A i, j \in 1..Len(q) : i # j => p[i] # p[j]}

\* return list(all_ids): the ids of the set, each once, in the order the set
\* happens to be iterated in.
MultiReturns(m) == Orders(SetToSeq(m.all_ids))

InitMulti ==
    /\ API_KEY = KeyValue
    /\ \E found \in [{MultiKeywords[k] : k \in 1..Len(MultiKeywords)} -> SUBSET MultiIds] :
       \E p \in Orders(MultiKeywords) :
          ms = [found |-> found,
                a |-> MultiEnter(MultiKeywords, 1, "JP"),
                b |-> MultiEnter(p, 1, "JP")]
    /\ yt = Unused /\ stderr = Unused /\ sc = Unused /\ MainUnused

MultiPassA ==
    /\ MultiMore(ms.a)
    /\ ms' = [ms EXCEPT !.a = MultiIter(@, ms.found[MultiKeyword(ms.a)])]
    /\ UNCHANGED <<API_KEY, yt, stderr, sc, mainVars>>

MultiReturnA ==
    /\ ms.a.pc = "loop" /\ ~MultiMore(ms.a)
    /\ ms' = [ms EXCEPT !.a = MultiLeave(@)]
    /\ UNCHANGED <<API_KEY, yt, stderr, sc, mainVars>>

MultiPassB ==
    /\ ms.a.pc = "returned"
    /\ MultiMore(ms.b)
    /\ ms' = [ms EXCEPT !.b = MultiIter(@, ms.found[MultiKeyword(ms.b)])]
    /\ UNCHANGED <<API_KEY, yt, stderr, sc, mainVars>>

MultiReturnB ==
    /\ ms.a.pc = "returned"
    /\ ms.b.pc = "loop" /\ ~MultiMore(ms.b)
    /\ ms' = [ms EXCEPT !.b = MultiLeave(@)]
    /\ UNCHANGED <<API_KEY, yt, stderr, sc, mainVars>>

NextMulti == MultiPassA \/ MultiReturnA \/ MultiPassB \/ MultiReturnB

SpecMulti == InitMulti /\ [][NextMulti]_vars

-----------------------------------------------------------------------------
(* chunk and get_channels_details *)

\* The batch size get_channels_details passes to chunk, 50 in both scripts;
\* the model runs it scaled down so that a few ids make several batches.
BATCH_SIZE == 2

Min(a, b) == IF a < b THEN a ELSE b

\* [lst[i:i+n] for i in range(0, len(lst), n)]
chunk(lst, n) ==
    [k \in 1..((Len(lst) + n - 1) \div n) |->
        SubSeq(lst, (k - 1) * n + 1, Min(k * n, Len(lst)))]

\* int(sub_raw): the API gives the count as a decimal string, here its digits.
RECURSIVE int(_)
int(digits) ==
    IF digits = <<>> THEN 0
    ELSE 10 * int(SubSeq(digits, 1, Len(digits) - 1)) + digits[Len(digits)]

\* The dates of the model, as the API writes them and as the instant each
\* denotes (in days), which is what iso_to_dt computes from the text.
Instant ==
    ("2024-06-01T00:00:00Z" :> 517) @@ ("2023-06-01T00:00:00Z" :> 151)
Isos == DOMAIN Instant

\* What playlistItems.list holds for an uploads playlist: no item, a first
\* item published on one of the dates, a first item whose snippet has no
\* publishedAt, a first item without a snippet, a body without items.
PlaylistBodies ==
    {[items |-> <<>>], [kind |-> "youtube#playlistItemListResponse"],
     [items |-> <<[snippet |-> [title |-> "video"]]>>],
     [items |-> <<[contentDetails |-> [videoId |-> "v"]]>>]}
    \cup {[items |-> <<[snippet |-> [publishedAt |-> d]]>>] : d \in Isos}

\* The channels the API can describe: the parts of a channels.list item
\* other than its id, whether the item names an uploads playlist, and what
\* that playlist holds.
Kind(title, stats, uploads, playlist) ==
    [snippet |-> [title |-> title, description |-> ""], statistics |-> stats,
     uploads |-> uploads, playlist |-> playlist]
First(d) == [items |-> <<[snippet |-> [publishedAt |-> d]]>>]
Recent == First("2024-06-01T00:00:00Z")
ChannelKinds ==
    {Kind("DIY", [subscriberCount |-> <<9, 0, 0, 0>>, videoCount |-> <<1, 2>>], TRUE, b) :
        b \in {Recent, [items |-> <<>>], [items |-> <<[snippet |-> [title |-> "video"]]>>],
               [items |-> <<[contentDetails |-> [videoId |-> "v"]]>>]}}
    \cup {Kind("Reform", [subscriberCount |-> <<3, 0, 0, 0, 0, 0>>], TRUE,
               First("2023-06-01T00:00:00Z")),
          Kind("DIY", [subscriberCount |-> <<8, 9, 9, 9>>], TRUE, Recent),
          Kind("DIY", [subscriberCount |-> <<3, 0, 0, 0, 0, 1>>], TRUE, Recent),
          Kind("DIY", [videoCount |-> <<7>>], TRUE, Recent),
          Kind("nhk diy", [subscriberCount |-> <<9, 0, 0, 0>>], TRUE, Recent),
          Kind("DIY", [subscriberCount |-> <<9, 0, 0, 0>>], FALSE, Recent)}

\* The id of a channel's uploads playlist.
UploadsId(id) == <<"UU", id>>

\* The channels.list item of channel id, it being of kind c.
DetailItem(id, c) ==
    [id |-> id, snippet |-> c.snippet, statistics |-> c.statistics,
     contentDetails |-> IF c.uploads
                        THEN [relatedPlaylists |-> [uploads |-> UploadsId(id)]]
                        ELSE [relatedPlaylists |-> <<>>]]

\* The body channels.list answers a batch with: one item per id, in order.
DetailsBody(batch, kinds) ==
    [items |-> [k \in 1..Len(batch) |-> DetailItem(batch[k], kinds[k])]]

\* The frame on entry: line 144, with the batches of line 145.
DetailsEnter(id_list) ==
    [batches |-> chunk(id_list, BATCH_SIZE), b |-> 0, results |-> <<>>,
     failed |-> {}, warned |-> 0]

\* `for batch in chunk(channel_ids, 50)` has another batch to take.
DetailsMore(d) == d.b < Len(d.batches)

DetailsFailedDropsAll(d) ==
    [d EXCEPT !.b = @ + 1, !.failed = @ \cup {d.b + 1}, !.warned = @ + 1, !.results = <<>>]

\* A batch whose call failed: warn and continue (lines 150-152).
DetailsFailed(d) == [d EXCEPT !.b = @ + 1, !.failed = @ \cup {d.b + 1}, !.warned = @ + 1]

\* One pass of the loop body (lines 146-153).
DetailsIter(d, key, os) ==
    LET batch == d.batches[d.b + 1]
        resp == yt_get("channels",
                       [part |-> "statistics,snippet,contentDetails", id |-> batch],
                       key, os)
    IN  IF IsError(resp) THEN DetailsFailed(d)
        ELSE [d EXCEPT !.b = @ + 1, !.results = @ \o ItemsOf(resp)]

-----------------------------------------------------------------------------
(* get_latest_upload_published_at, iso_to_dt, any_match *)

\* What the call did: the value returned (or that it raised), whether it
\* called yt_get, whether it warned.
Outcome(value, raised, called, warns, how) ==
    [value |-> value, raised |-> raised, called |-> called, warned |-> warns,
     how |-> how]

\* items[0]["snippet"].get("publishedAt"): a KeyError when the item has no
\* snippet, None when the snippet has no publishedAt.
FirstPublishedAt(items) ==
    IF "snippet" \notin DOMAIN items[1]
    THEN Outcome(None, TRUE, TRUE, FALSE, "item")
    ELSE IF "publishedAt" \in DOMAIN items[1].snippet
         THEN Outcome(Some(items[1].snippet.publishedAt), FALSE, TRUE, FALSE, "item")
         ELSE Outcome(None, FALSE, TRUE, FALSE, "item")

\* Lines 157-172.  uploads_playlist_id is "" when the item names none.
get_latest_upload_published_at(uploads_playlist_id, key, os) ==
    IF uploads_playlist_id = "" THEN Outcome(None, FALSE, FALSE, FALSE, "missing")
    ELSE LET resp == yt_get("playlistItems",
                            [part |-> "snippet,contentDetails",
                             playlistId |-> uploads_playlist_id, maxResults |-> "1"],
                            key, os)
         IN  IF IsError(resp) THEN Outcome(None, FALSE, TRUE, TRUE, "error")
             ELSE IF ItemsOf(resp) = <<>> THEN Outcome(None, FALSE, TRUE, FALSE, "empty")
             ELSE FirstPublishedAt(ItemsOf(resp))

\* iso_to_dt: None for no text, else the instant the text denotes.
iso_to_dt(iso) == IF iso = None THEN None ELSE Some(Instant[iso[1]])

\* LATEST_WITHIN_DAYS and the subscriber range, as in both scripts.
LATEST_WITHIN_DAYS == 183
MIN_SUBSCRIBERS == 9000
MAX_SUBSCRIBERS == 300000

EXCLUDE_BRANDY_CHANNELS == TRUE
\* Two of the patterns of EXCLUDE_NAME_PATTERNS.
EXCLUDE_NAME_PATTERNS == <<"NHK", "TV">>

\* re.search(p, text, flags=re.IGNORECASE) on the texts of the model.
ReSearch(p, text) == <<p, text>> \in {<<"NHK", "nhk diy">>}

\* any_match(patterns, f"{title} {desc}"): the text is the two parts joined
\* by a space, so it is never empty and a pattern is found in one of them.
any_match(patterns, title, desc) ==
    \E k \in 1..Len(patterns) : ReSearch(patterns[k], title) \/ ReSearch(patterns[k], desc)

-----------------------------------------------------------------------------
(* The filter loop and the output of main *)

Main == "main.py"
DeckBrush == "main_deck-brush.py"

\* d.get(k, {}) or {}
Sub(d, k) == IF k \in DOMAIN d THEN d[k] ELSE <<>>
\* d.get(k) or ""
Text(d, k) == IF k \in DOMAIN d THEN d[k] ELSE ""

\* (cdet.get("relatedPlaylists") or {}).get("uploads", "")
UploadsOf(ch) == Text(Sub(Sub(ch, "contentDetails"), "relatedPlaylists"), "uploads")

\* The row main appends for an accepted item (the columns the model follows).
Row(ch, subscribers, latest_iso) ==
    [title |-> Text(Sub(ch, "snippet"), "title"), subscribers |-> subscribers,
     latest |-> latest_iso, channel_id |-> ch.id]

\* if EXCLUDE_BRANDY_CHANNELS: if any_match(...): continue
Excluded(ch) ==
    /\ EXCLUDE_BRANDY_CHANNELS
    /\ any_match(EXCLUDE_NAME_PATTERNS, Text(Sub(ch, "snippet"), "title"),
                 Text(Sub(ch, "snippet"), "description"))

\* sub_raw is None
NoCount(ch) == "subscriberCount" \notin DOMAIN Sub(ch, "statistics")

OutOfRangeExclusive(subscribers) ==
    subscribers <= MIN_SUBSCRIBERS \/ subscribers >= MAX_SUBSCRIBERS

OutOfRangeLowOnly(subscribers) == subscribers < MIN_SUBSCRIBERS

\* subscribers < MIN_SUBSCRIBERS or subscribers > MAX_SUBSCRIBERS
OutOfRange(subscribers) == subscribers < MIN_SUBSCRIBERS \/ subscribers > MAX_SUBSCRIBERS

StaleIgnoresCutoff(latest_dt, cutoff) == latest_dt = None

\* not latest_dt or latest_dt < latest_after_dt
Stale(latest_dt, cutoff) == latest_dt = None \/ latest_dt[1] < cutoff

\* What one pass of the loop did: why it ended, the lookup it made (None
\* when it made none) and the row it appended (None when it appended none).
Pass(verdict, lookup, row) == [verdict |-> verdict, lookup |-> lookup, row |-> row]

ExamineLooksFirst(ch, cutoff, key, os) ==
    LET look == get_latest_upload_published_at(UploadsOf(ch), key, os)
        latest_dt == IF look.value # None THEN iso_to_dt(look.value) ELSE None
    IN  IF look.raised THEN Pass("raised", Some(look), None)
        ELSE IF Excluded(ch) THEN Pass("excluded", Some(look), None)
        ELSE IF NoCount(ch) THEN Pass("no count", Some(look), None)
        ELSE IF OutOfRange(int(ch.statistics.subscriberCount))
             THEN Pass("out of range", Some(look), None)
        ELSE IF Stale(latest_dt, cutoff) THEN Pass("stale", Some(look), None)
        ELSE Pass("accepted", Some(look),
                  Some(Row(ch, int(ch.statistics.subscriberCount), look.value[1])))

\* One pass of the loop body over the item ch (main.py lines 231-273).
Examine(ch, cutoff, key, os) ==
    IF Excluded(ch) THEN Pass("excluded", None, None)
    ELSE IF NoCount(ch) THEN Pass("no count", None, None)
    ELSE IF OutOfRange(int(ch.statistics.subscriberCount))
         THEN Pass("out of range", None, None)
    ELSE LET look == get_latest_upload_published_at(UploadsOf(ch), key, os)
             latest_dt == IF look.value # None THEN iso_to_dt(look.value) ELSE None
         IN  IF look.raised THEN Pass("raised", Some(look), None)
             ELSE IF Stale(latest_dt, cutoff) THEN Pass("stale", Some(look), None)
             ELSE Pass("accepted", Some(look),
                       Some(Row(ch, int(ch.statistics.subscriberCount), look.value[1])))

StopsAfterNever(which, rows) == FALSE

\* main_deck-brush.py lines 280-281, after an append:
\* if len(results) >= STOP_AFTER_N_RESULTS: break
StopsAfter(which, rows) == which = DeckBrush /\ Len(rows) >= STOP_AFTER_N_RESULTS

\* Python's order of the strings of the model (by code point).
StrOrder == <<"", "DIY", "Reform", "nhk diy">>
StrLess(a, b) ==
    \E i, j \in 1..Len(StrOrder) : StrOrder[i] = a /\ StrOrder[j] = b /\ i < j

\* key=lambda x: (x["登録者数（人）"], x["チャンネル名"] or "")
KeyLess(a, b) ==
    \/ a.subscribers < b.subscribers
    \/ a.subscribers = b.subscribers /\ StrLess(a.title, b.title)

\* sorted(rows, key=...): stable, a row goes after the rows that do not
\* compare greater and came before it.
RECURSIVE sorted(_)
sorted(rows) ==
    IF rows = <<>> THEN <<>>
    ELSE LET front == sorted(SubSeq(rows, 1, Len(rows) - 1))
             r == rows[Len(rows)]
             n == Cardinality({k \in 1..Len(front) : ~KeyLess(r, front[k])})
         IN  SubSeq(front, 1, n) \o <<r>> \o SubSeq(front, n + 1, Len(front))

\* uniq = {r["channel_id"]: r for r in results}, then uniq.values(): a dict
\* keeps its keys in the order they were first set and the value set last.
Uniq(rows) ==
    LET firsts == {k \in 1..Len(rows) :
                      \A j \in 1..(k - 1) : rows[j].channel_id # rows[k].channel_id}
        last(k) == CHOOSE j \in 1..Len(rows) :
                      /\ rows[j].channel_id = rows[k].channel_id
                      /\ \A l \in (j + 1)..Len(rows) : rows[l].channel_id # rows[k].channel_id
        RECURSIVE Take(_)
        Take(k) == IF k > Len(rows) THEN <<>>
                   ELSE IF k \in firsts THEN <<rows[last(k)]>> \o Take(k + 1)
                   ELSE Take(k + 1)
    IN  Take(1)

\* The rows printed and saved: main.py line 280, main_deck-brush.py lines 289-290.
Final(which, rows) == IF which = DeckBrush THEN sorted(Uniq(rows)) ELSE sorted(rows)

-----------------------------------------------------------------------------
(* Spec: one run of main(), in either script. *)

\* Two keywords stand for the list KEYWORDS.
KEYWORDS == <<"kw1", "kw2">>
REGION_CODE == "JP"
MAX_PAGES_PER_KEYWORD == 1

\* datetime.now(timezone.utc) at line 217, in days: a day on which the later
\* date of the model is recent, and one on which it is a day too old.
Nows == {547, 701}

\* The outcomes the attempts of one search.list call can end in.
PageSchedules == UNION {Schedules(b) : b \in SearchBodies}

Line(kind, what) == [kind |-> kind, what |-> what]

\* The record of a yt_get call run against the outcomes os.
Call(site, unit, os) ==
    [site |-> site, unit |-> unit,
     answered |-> \E k \in 1..Len(os) : os[k].kind = "response" /\ os[k].status_code = 200]

sanity_check_lenient(resp) == TRUE

\* sanity_check (lines 87-96) on the value resp its yt_get call returned:
\* False for an error value, else True.
sanity_check(resp) == ~IsError(resp)

Init ==
    /\ API_KEY \in {NoKey, KeyValue}
    /\ script \in {Main, DeckBrush}
    /\ pc = "start" /\ exit_code = None /\ latest_after_dt = None
    /\ multi = None /\ channel_ids = <<>>
    /\ det = None /\ playlists = <<>> /\ ch_i = 0
    /\ results = <<>> /\ seen = <<>> /\ stdout = <<>> /\ csv = None
    /\ calls = <<>> /\ warned = 0
    /\ yt = Unused /\ stderr = Unused /\ sc = Unused /\ ms = Unused

\* Lines 209-211: without a key, sys.exit(1).
MainStart ==
    /\ pc = "start"
    /\ IF API_KEY = NoKey
       THEN exit_code' = Some(1) /\ pc' = "exited"
       ELSE exit_code' = exit_code /\ pc' = "sanity"
    /\ UNCHANGED <<API_KEY, yt, stderr, sc, ms, script, latest_after_dt, multi,
                   channel_ids, det, playlists, ch_i, results, seen, stdout, csv,
                   calls, warned>>

\* Lines 213-217 with sanity_check (87-96): the probe; on an error value
\* sys.exit(2), else the cutoff is computed and discovery begins.
MainSanity ==
    /\ pc = "sanity"
    /\ \E os \in Schedules([items |-> <<[id |-> "UC_x5XG1OV2P6uZZ5FSM9Ttw"]>>]) :
         LET resp == yt_get("channels", [part |-> "id", id |-> "UC_x5XG1OV2P6uZZ5FSM9Ttw"],
                            API_KEY, os)
         IN  /\ calls' = Append(calls, Call("sanity", 0, os))
             /\ IF ~sanity_check(resp)
                THEN /\ warned' = warned + 1
                     /\ exit_code' = Some(2) /\ pc' = "exited"
                     /\ UNCHANGED <<stdout, latest_after_dt, multi>>
                ELSE /\ stdout' = Append(stdout, Line("sanity", "OK"))
                     /\ \E now \in Nows : latest_after_dt' = Some(now - LATEST_WITHIN_DAYS)
                     /\ multi' = MultiEnter(KEYWORDS, MAX_PAGES_PER_KEYWORD, REGION_CODE)
                     /\ pc' = "search"
                     /\ UNCHANGED <<warned, exit_code>>
    /\ UNCHANGED <<API_KEY, yt, stderr, sc, ms, script, channel_ids, det,
                   playlists, ch_i, results, seen, csv>>

\* One pass of the loop of search_channels_multi (lines 130-134), with the
\* whole call of search_channels it makes.
MainSearch ==
    /\ pc = "search"
    /\ MultiMore(multi)
    /\ \E oss \in [1..multi.max_pages -> PageSchedules] :
         LET s == SearchRun(SearchEnter(MultiKeyword(multi), multi.max_pages,
                                        multi.region_code), API_KEY, oss)
         IN  /\ multi' = MultiIter(multi, s.ids)
             /\ calls' = calls \o [k \in 1..Len(s.calls) |->
                                       Call("search", multi.k + 1, oss[k])]
             /\ warned' = warned + s.warned
             /\ stdout' = Append(stdout, Line("searching", MultiKeyword(multi)))
    /\ UNCHANGED <<API_KEY, yt, stderr, sc, ms, script, pc, exit_code, latest_after_dt,
                   channel_ids, det, playlists, ch_i, results, seen, csv>>

\* search_channels_multi returns list(all_ids), in the order the set happens
\* to be iterated in; lines 220-226: with no id main returns, else the
\* detail lookup begins.
MainSearched ==
    /\ pc = "search"
    /\ ~MultiMore(multi)
    /\ multi' = MultiLeave(multi)
    /\ \E order \in MultiReturns(multi) :
         /\ channel_ids' = order
         /\ IF order = <<>>
            THEN /\ stdout' = Append(stdout, Line("none found", ""))
                 /\ pc' = "done" /\ det' = det
            ELSE /\ det' = DetailsEnter(order)
                 /\ pc' = "details" /\ stdout' = stdout
    /\ UNCHANGED <<API_KEY, yt, stderr, sc, ms, script, exit_code, latest_after_dt,
                   playlists, ch_i, results, seen, csv, calls, warned>>

\* One pass of the loop of get_channels_details (lines 145-153).  The API
\* describes each channel of the batch as one of ChannelKinds.
MainDetails ==
    /\ pc = "details"
    /\ DetailsMore(det)
    /\ LET batch == det.batches[det.b + 1] IN
       \E kinds \in [1..Len(batch) -> ChannelKinds] :
       \E os \in Schedules(DetailsBody(batch, kinds)) :
         LET d == DetailsIter(det, API_KEY, os) IN
         /\ det' = d
         /\ warned' = warned + (d.warned - det.warned)
         /\ playlists' = IF d.warned > det.warned THEN playlists
                         ELSE [id \in DOMAIN playlists \cup {batch[k] : k \in 1..Len(batch)} |->
                                 IF \E k \in 1..Len(batch) : batch[k] = id
                                 THEN kinds[CHOOSE k \in 1..Len(batch) : batch[k] = id].playlist
                                 ELSE playlists[id]]
         /\ calls' = Append(calls, Call("channels", det.b + 1, os))
    /\ UNCHANGED <<API_KEY, yt, stderr, sc, ms, script, pc, exit_code, latest_after_dt,
                   multi, channel_ids, ch_i, results, seen, stdout, csv>>

\* get_channels_details returns; line 229 and the head of the filter loop.
MainDetailed ==
    /\ pc = "details"
    /\ ~DetailsMore(det)
    /\ pc' = IF det.results = <<>> THEN "output" ELSE "filter"
    /\ UNCHANGED <<API_KEY, yt, stderr, sc, ms, script, exit_code, latest_after_dt,
                   multi, channel_ids, det, playlists, ch_i, results, seen,
                   stdout, csv, calls, warned>>

\* One pass of the filter loop over the next item of `details`, with the
\* call of get_latest_upload_published_at it makes.
MainFilter ==
    /\ pc = "filter"
    /\ LET ch == det.results[ch_i + 1] IN
       \E os \in Schedules(playlists[ch.id]) :
         LET p == Examine(ch, latest_after_dt[1], API_KEY, os)
             rows == IF p.row = None THEN results ELSE Append(results, p.row[1])
             looked == p.lookup # None /\ p.lookup[1].called
         IN  /\ ch_i' = ch_i + 1
             /\ seen' = Append(seen, p)
             /\ calls' = IF looked THEN Append(calls, Call("playlistItems", ch_i + 1, os))
                          ELSE calls
             /\ warned' = IF p.lookup # None /\ p.lookup[1].warned
                          THEN warned + 1 ELSE warned
             /\ results' = rows
             /\ pc' = IF p.verdict = "raised" THEN "raised"
                      ELSE IF (p.row # None /\ StopsAfter(script, rows))
                              \/ ch_i + 1 = Len(det.results)
                           THEN "output" ELSE "filter"
    /\ UNCHANGED <<API_KEY, yt, stderr, sc, ms, script, exit_code, latest_after_dt,
                   multi, channel_ids, det, playlists, stdout, csv>>

\* Lines 276-285: nothing to report, or the rows sorted, printed and saved.
MainOutput ==
    /\ pc = "output"
    /\ pc' = "done"
    /\ IF results = <<>>
       THEN /\ stdout' = Append(stdout, Line("no match", ""))
            /\ UNCHANGED <<results, csv>>
       ELSE LET rows == Final(script, results) IN
            /\ results' = rows
            /\ stdout' = stdout \o <<Line("header", "")>>
                                \o [k \in 1..Len(rows) |-> Line("row", rows[k])]
            /\ csv' = Some(rows)
    /\ UNCHANGED <<API_KEY, yt, stderr, sc, ms, script, exit_code, latest_after_dt,
                   multi, channel_ids, det, playlists, ch_i, seen, calls,
                   warned>>

Next ==
    \/ MainStart \/ MainSanity \/ MainSearch \/ MainSearched
    \/ MainDetails \/ MainDetailed \/ MainFilter \/ MainOutput

Spec == Init /\ [][Next]_vars

-----------------------------------------------------------------------------
(* SpecDetails: one call of get_channels_details (line 226) on a list of
   distinct channel ids, batch by batch. *)

\* The ids discovery can hand over.
DetailIds == {"c1", "c2", "c3"}

\* list(all_ids): the ids of a set, in any order.
IdLists == UNION {Orders(SetToSeq(S)) : S \in SUBSET DetailIds} \ {<<>>}

InitDetails ==
    /\ API_KEY = KeyValue
    /\ script \in {Main, DeckBrush}
    /\ pc = "details"
    /\ \E id_list \in IdLists : channel_ids = id_list /\ det = DetailsEnter(id_list)
    /\ exit_code = None /\ latest_after_dt = Some(364) /\ multi = None
    /\ playlists = <<>> /\ ch_i = 0
    /\ results = <<>> /\ seen = <<>> /\ stdout = <<>> /\ csv = None
    /\ calls = <<>> /\ warned = 0
    /\ yt = Unused /\ stderr = Unused /\ sc = Unused /\ ms = Unused

NextDetails == MainDetails \/ MainDetailed

SpecDetails == InitDetails /\ [][NextDetails]_vars

-----------------------------------------------------------------------------
(* SpecOut: the output of main (lines 276-285) on a list of accepted rows,
   the API having described any channels, also one channel twice. *)

\* The longest list of rows; far below the 200 of STOP_AFTER_N_RESULTS.
MaxRows == 3

\* The rows an accepted item can give: two channels, two counts, a title or none.
OutRows ==
    {[title |-> t, subscribers |-> n, latest |-> "2024-06-01T00:00:00Z", channel_id |-> c] :
        t \in {"", "DIY"}, n \in {MIN_SUBSCRIBERS, MAX_SUBSCRIBERS}, c \in Ids}

RowLists == UNION {[1..n -> OutRows] : n \in 1..MaxRows}

\* The filter loop has ended with the rows of `results`; seen keeps them as
\* they were appended.
InitOut ==
    /\ API_KEY = KeyValue
    /\ script \in {Main, DeckBrush}
    /\ pc = "output"
    /\ \E rows \in RowLists :
          /\ results = rows
          /\ seen = [k \in 1..Len(rows) |->
                       Pass("accepted",
                            Some(Outcome(Some(rows[k].latest), FALSE, TRUE, FALSE, "item")),
                            Some(rows[k]))]
    /\ stdout = <<>> /\ csv = None
    /\ yt = Unused /\ stderr = Unused /\ sc = Unused /\ ms = Unused
    /\ exit_code = Unused /\ latest_after_dt = Unused /\ multi = Unused
    /\ channel_ids = Unused /\ det = Unused /\ playlists = Unused /\ ch_i = Unused
    /\ calls = Unused /\ warned = Unused

NextOut == MainOutput

SpecOut == InitOut /\ [][NextOut]_vars

-----------------------------------------------------------------------------
(* Vocabulary of the claims about yt_get *)

Is200(o) == o.kind = "response" /\ o.status_code = 200
Returned == yt.frame.pc = "returned"
ReturnedError == Returned /\ IsError(yt.frame.ret[1])

\* The positions of the attempts of the call that got an HTTP answer.
Answered == {k \in 1..Len(yt.frame.requests) : yt.frame.requests[k].kind = "response"}
LastAnswered == CHOOSE k \in Answered : \A j \in Answered : j <= k

\* Whether a printed structure contains the credential.
UrlMentions(u, key) == \E k \in DOMAIN u.query : u.query[k] = key
ExcMentions(e, key) == e # None /\ e[1].url # None /\ UrlMentions(e[1].url[1], key)
ParamsMention(p, key) == \E k \in DOMAIN p : p[k] = key
ErrorMentions(r, key) ==
    \/ UrlMentions(r["__url"], key)
    \/ ExcMentions(r["__exc"], key)
    \/ ParamsMention(r["__params"], key)
LineMentions(l, key) ==
    UrlMentions(l.url, key) \/ ExcMentions(l.exc, key) \/ ParamsMention(l.params, key)

-----------------------------------------------------------------------------
(* Claims about yt_get, checked under SpecYt *)

\* C1: whatever the attempts end in, yt_get issues at most 4 requests, issues
\* none after the first HTTP 200 and returns that response's body; when none
\* of the 4 attempts answers 200 it returns a value tagged "__error__".
C1_AtMostFourStopAt200 ==
    LET f == yt.frame
        n == Len(f.requests)
    IN  /\ n <= 4
        /\ \A k \in 1..(n - 1) : ~Is200(f.requests[k])
        /\ (n >= 1 /\ Is200(f.requests[n])) =>
               (f.pc = "returned" /\ f.ret = Some(f.requests[n].json))
        /\ (f.pc = "returned" /\ ~(n >= 1 /\ Is200(f.requests[n]))) =>
               (n = 4 /\ IsError(f.ret[1]))
        /\ (f.pc = "loop" /\ n = 4) => ENABLED YtReturnError

\* A call whose third attempt answered 200 after two failures has returned.
C1_Witness ==
    /\ Returned
    /\ Len(yt.frame.requests) = 3
    /\ Is200(yt.frame.requests[3])
    /\ yt.frame.requests[1].kind = "exception"

\* C2: the error value carries the status of the last attempt that got an
\* HTTP answer (500 when every attempt answered 500), never None.
C2_ErrorCarriesLastStatus ==
    (ReturnedError /\ Answered # {}) =>
        yt.frame.ret[1]["__http_status"] =
            Some(yt.frame.requests[LastAnswered].status_code)

\* C3: a sleep follows a failed attempt only when another attempt follows, so
\* a call that has returned slept once less than it issued requests (3 sleeps
\* for 4 failed attempts).
C3_SleepOnlyBetweenAttempts ==
    Returned => Len(yt.frame.sleeps) = Len(yt.frame.requests) - 1

\* C4: the credential appears in no field of the error value yt_get returns,
\* nor in what warn prints from it.
C4_CredentialNeverReported ==
    /\ ReturnedError => ~ErrorMentions(yt.frame.ret[1], API_KEY)
    /\ \A k \in 1..Len(stderr) : ~LineMentions(stderr[k], API_KEY)

-----------------------------------------------------------------------------
(* Claims about get_latest_upload_published_at, checked under Spec *)

\* A lookup that ended without a timestamp because the item names no uploads
\* playlist, the playlistItems call failed, or it answered with no item.
NeedsFallback(p) ==
    p.lookup # None /\ p.lookup[1].how \in {"missing", "error", "empty"}

\* The search.list calls made once the detail lookup had begun: the searches
\* of discovery all come before it.
LateSearches ==
    {k \in 1..Len(calls) :
        calls[k].site = "search" /\ \E j \in 1..(k - 1) : calls[j].site = "channels"}

\* C5: for every channel whose lookup found no uploads playlist id, failed
\* or answered with no item, the resolver makes a fallback search for the
\* channel's videos.
C5_FallbackSearched ==
    Cardinality(LateSearches) >= Cardinality({i \in 1..Len(seen) : NeedsFallback(seen[i])})

-----------------------------------------------------------------------------
(* Claims about search_channels, checked under SpecSearch *)

\* C6: search_channels makes at most max_pages calls; the first carries no
\* page token and each later one the token the page before it returned; it
\* stops at the first page without a token, after max_pages calls or at the
\* first failed call; the ids it returns are the union of the channel ids of
\* the pages that were fetched.
C6_PagesFollowTokens ==
    LET c == sc.calls
        n == Len(c)
        failed(k) == IsError(c[k].resp)
        last(k) == failed(k) \/ NextPageToken(c[k].resp) = None
    IN  /\ n <= sc.max_pages
        /\ n >= 1 => c[1].page_token = None
        /\ \A k \in 2..n : ~last(k - 1) /\ c[k].page_token = NextPageToken(c[k - 1].resp)
        /\ (n >= 1 /\ last(n)) => sc.pc = "returned"
        /\ sc.pc = "returned" => (n = sc.max_pages \/ (n >= 1 /\ last(n)))
        /\ sc.pc = "returned" =>
               sc.ids = UNION {PageIds(c[k].resp) : k \in {j \in 1..n : ~failed(j)}}

\* A call that fetched one page with ids and whose second call failed.
C6_Witness ==
    /\ sc.pc = "returned"
    /\ Len(sc.calls) = 2
    /\ IsError(sc.calls[2].resp)
    /\ PageIds(sc.calls[1].resp) # {}

-----------------------------------------------------------------------------
(* Claims about search_channels_multi, checked under SpecMulti *)

BothReturned == ms.a.pc = "returned" /\ ms.b.pc = "returned"
\* Every id search_channels returns for one of the keywords.
MultiAll == UNION {ms.found[kw] : kw \in DOMAIN ms.found}

\* C7: for the same per-keyword results, search_channels_multi returns the
\* same set of ids for a keyword list and for every permutation of it.
C7_AnyOrderSameSet == BothReturned => ms.a.all_ids = ms.b.all_ids

\* C7 as amended: when the results of all the keywords together hold at most
\* STOP_AFTER_N_RESULTS * 3 distinct ids, search_channels_multi returns the
\* same set, their union, for every permutation of the keyword list.
C7_SameSetUpToStop ==
    (BothReturned /\ Cardinality(MultiAll) <= STOP_AFTER_N_RESULTS * 3) =>
        (ms.a.all_ids = MultiAll /\ ms.b.all_ids = MultiAll)

\* Two calls on lists in different orders, the keywords finding different
\* ids, have both returned.
C7_Witness ==
    /\ BothReturned
    /\ ms.a.keywords # ms.b.keywords
    /\ ms.found["kw1"] # {} /\ ms.found["kw2"] # {}
    /\ ms.found["kw1"] \cap ms.found["kw2"] = {}
    /\ Cardinality(MultiAll) <= STOP_AFTER_N_RESULTS * 3

-----------------------------------------------------------------------------
(* Claims about main, checked under Spec *)

RowPrinted == \E k \in 1..Len(stdout) : stdout[k].kind = "row"
\* The run was ended by sys.exit(code) with nothing reported.
Aborted(code) ==
    /\ pc = "exited" /\ exit_code = Some(code)
    /\ ~RowPrinted /\ csv = None /\ results = <<>>

\* C8: without a credential, or when no attempt of the sanity probe is
\* answered 200, the run ends by sys.exit with a non-zero code, having made
\* no call but the probe and printed or written no row; every search call
\* comes after a sanity probe that was answered.
C8_FatalBeforeWork ==
    /\ (API_KEY = NoKey /\ pc # "start") => (Aborted(1) /\ calls = <<>>)
    /\ (calls # <<>> /\ ~calls[1].answered) => (Aborted(2) /\ Len(calls) = 1)
    /\ exit_code # None => (exit_code[1] # 0 /\ pc = "exited")
    /\ \A k \in 1..Len(calls) :
          calls[k].site # "sanity" =>
              (k > 1 /\ calls[1].site = "sanity" /\ calls[1].answered)

\* A run whose sanity probe ran out of attempts has ended.
C8_Witness ==
    /\ pc = "exited" /\ exit_code = Some(2)
    /\ Len(calls) = 1 /\ calls[1].site = "sanity" /\ ~calls[1].answered

\* The calls of one stage that ran out of attempts.
FailedCalls(site) == {k \in 1..Len(calls) : calls[k].site = site /\ ~calls[k].answered}
Called(site, unit) == \E k \in 1..Len(calls) : calls[k].site = site /\ calls[k].unit = unit
DiscoveryOver == pc \in {"details", "filter", "output", "done", "raised"}
DetailsOver == pc \in {"filter", "output", "done", "raised"}
FilterOver == pc \in {"output", "done", "raised"}

\* C9: a call that ran out of attempts stops no later unit: the keywords
\* after a failed search are searched, the batches after a failed batch are
\* requested and their items returned, the items after a failed lookup are
\* processed, and the run ends without an exception or a sys.exit.
C9_FailureStopsNothing ==
    /\ DiscoveryOver =>
          \A k \in FailedCalls("search") :
              \A u \in (calls[k].unit + 1)..Len(KEYWORDS) : Called("search", u)
    /\ DetailsOver =>
          \A k \in FailedCalls("channels") :
              \A u \in (calls[k].unit + 1)..Len(det.batches) :
                  /\ Called("channels", u)
                  /\ u \notin det.failed =>
                        \A j \in 1..Len(det.batches[u]) :
                            \E r \in 1..Len(det.results) :
                                det.results[r].id = det.batches[u][j]
    /\ FilterOver =>
          \A k \in FailedCalls("playlistItems") :
              \A u \in (calls[k].unit + 1)..Len(det.results) : u <= Len(seen)
    /\ (FailedCalls("search") \cup FailedCalls("channels")
            \cup FailedCalls("playlistItems")) # {} =>
          (pc # "raised" /\ exit_code = None)

\* Whether the i-th detail record is among the result rows.
InRows(i) == \E k \in 1..Len(results) : results[k].channel_id = det.results[i].id

\* The latest publish timestamp of the i-th detail record: the one its
\* lookup resolved, and for a record no lookup was made for, the one the
\* API holds for its uploads playlist.
Held(ch) ==
    LET items == ItemsOf(playlists[ch.id]) IN
    IF UploadsOf(ch) # "" /\ items # <<>> /\ "snippet" \in DOMAIN items[1]
          /\ "publishedAt" \in DOMAIN items[1].snippet
    THEN Some(items[1].snippet.publishedAt) ELSE None
LatestOf(i) ==
    IF i <= Len(seen) /\ seen[i].lookup # None THEN seen[i].lookup[1].value
    ELSE Held(det.results[i])

\* The i-th detail record fails one of the active predicates.
FailsOne(i) ==
    LET ch == det.results[i]
        sn == Sub(ch, "snippet")
        st == Sub(ch, "statistics")
    IN  \/ any_match(EXCLUDE_NAME_PATTERNS, Text(sn, "title"), Text(sn, "description"))
        \/ "subscriberCount" \notin DOMAIN st
        \/ int(st.subscriberCount) < MIN_SUBSCRIBERS
        \/ int(st.subscriberCount) > MAX_SUBSCRIBERS
        \/ LatestOf(i) = None
        \/ Instant[LatestOf(i)[1]] < latest_after_dt[1]

\* C10: of the detail records handed to the filter loop, a record is absent
\* from the rows of the run exactly when it fails one of the predicates.
C10_AbsentIffFailsOne ==
    pc = "done" /\ det # None =>
        \A i \in 1..Len(det.results) : ~InRows(i) <=> FailsOne(i)

\* C10 as amended: a record the filter loop has examined is absent from the
\* rows exactly when it fails one of the predicates, and a record the loop
\* has not reached is absent.
C10_ExaminedAbsentIffFailsOne ==
    det # None =>
        /\ \A i \in 1..Len(seen) : ~InRows(i) <=> FailsOne(i)
        /\ \A i \in (Len(seen) + 1)..Len(det.results) : ~InRows(i)

\* A run of main.py has ended that rejected its first record for an old
\* upload and accepted its second, whose count is MIN_SUBSCRIBERS.
C10_Witness ==
    /\ pc = "done" /\ script = Main
    /\ Len(seen) = 2
    /\ seen[1].verdict = "stale" /\ seen[1].lookup[1].value # None
    /\ seen[2].verdict = "accepted" /\ seen[2].row[1].subscribers = MIN_SUBSCRIBERS
    /\ Len(results) = 1

-----------------------------------------------------------------------------
(* Claims about the output of main, checked under SpecOut *)

\* The rows the filter loop accepted, in the order it appended them.
Accepted == [k \in 1..Len(seen) |-> seen[k].row[1]]
Exported == pc = "done" /\ csv # None
ChannelsOf(rows) == {rows[k].channel_id : k \in 1..Len(rows)}

\* C11: the exported rows hold one row per distinct channel id of the
\* accepted rows, and it is the last accepted row with that id.
C11_OneRowPerChannel ==
    Exported =>
        /\ ChannelsOf(csv[1]) = ChannelsOf(Accepted)
        /\ \A i, j \in 1..Len(csv[1]) : i # j => csv[1][i].channel_id # csv[1][j].channel_id
        /\ \A i \in 1..Len(csv[1]) :
              \E k \in 1..Len(Accepted) :
                  /\ csv[1][i] = Accepted[k]
                  /\ \A l \in (k + 1)..Len(Accepted) :
                        Accepted[l].channel_id # Accepted[k].channel_id

\* The lists that hold the rows of q in another order.
Reorderings(q) ==
    {[k \in 1..Len(q) |-> q[p[k]]] : p \in Orders([k \in 1..Len(q) |-> k])}

\* C12: the exported order is the same in whatever order the rows of the
\* discovered channels, one row per channel, were accepted.
C12_OrderFromRowsAlone ==
    (Exported /\ Cardinality(ChannelsOf(Accepted)) = Len(Accepted)) =>
        \A q \in Reorderings(Accepted) : Final(script, q) = csv[1]

\* C13: the exported rows ascend by (subscribers, title), and of two distinct
\* exported rows exactly one is less than the other under (subscribers, title).
C13_AscendingStrictTotal ==
    Exported =>
        /\ \A i, j \in 1..Len(csv[1]) : i < j => ~KeyLess(csv[1][j], csv[1][i])
        /\ \A i, j \in 1..Len(csv[1]) :
              csv[1][i] # csv[1][j] =>
                  (KeyLess(csv[1][i], csv[1][j]) # KeyLess(csv[1][j], csv[1][i]))

-----------------------------------------------------------------------------
(* Claims about get_channels_details, checked under SpecDetails *)

\* The lists of qs one after the other, those at the positions in keep only.
RECURSIVE Concat(_, _)
Concat(qs, keep) ==
    IF qs = <<>> THEN <<>>
    ELSE Concat(SubSeq(qs, 1, Len(qs) - 1), keep)
            \o (IF Len(qs) \in keep THEN qs[Len(qs)] ELSE <<>>)

\* The batches whose channels.list call had an attempt answered 200.
AnsweredBatches == {calls[k].unit : k \in {j \in 1..Len(calls) : calls[j].answered}}

\* C14: the batches are consecutive pieces of the id list of 1 to BATCH_SIZE
\* ids; each batch is requested once, in order; the items returned are those
\* of the batches whose request succeeded, in batch order, one per id asked.
C14_BatchesOnceEachKept ==
    /\ Concat(det.batches, 1..Len(det.batches)) = channel_ids
    /\ \A u \in 1..Len(det.batches) :
          Len(det.batches[u]) >= 1 /\ Len(det.batches[u]) <= BATCH_SIZE
    /\ Len(calls) = det.b
    /\ \A k \in 1..Len(calls) : calls[k].site = "channels" /\ calls[k].unit = k
    /\ pc # "details" => det.b = Len(det.batches)
    /\ [r \in 1..Len(det.results) |-> det.results[r].id]
          = Concat(SubSeq(det.batches, 1, det.b), AnsweredBatches)

\* The call has returned: the first of its two batches failed and the items
\* of the second, smaller one are returned.
C14_Witness ==
    /\ pc # "details"
    /\ Len(det.batches) = 2 /\ Len(det.batches[2]) < Len(det.batches[1])
    /\ AnsweredBatches = {2}
    /\ Len(det.results) = Len(det.batches[2])

-----------------------------------------------------------------------------
(* Claims about the activity lookup and the subscriber range *)

\* C15: get_latest_upload_published_at never raises, whatever the first item
\* of the answer holds; it returns a timestamp or None, and on None the
\* filter loop rejects the record and goes on.
C15_ResolverNeverRaises ==
    /\ pc # "raised"
    /\ \A i \in 1..Len(seen) :
          seen[i].lookup # None =>
              /\ ~seen[i].lookup[1].raised
              /\ seen[i].lookup[1].value = None =>
                    (seen[i].verdict = "stale" /\ seen[i].row = None)

\* C16 (SpecYt): when every attempt of the playlistItems call is answered
\* HTTP 404, no warning is printed for the call.
C16_NotFoundNotWarned ==
    (/\ yt.site = "playlistItems.list"
     /\ ReturnedError
     /\ \A k \in 1..Len(yt.frame.requests) :
           /\ yt.frame.requests[k].kind = "response"
           /\ yt.frame.requests[k].status_code = 404)
        => stderr = <<>>

\* Whether the count of the i-th detail record is known, and the count.
CountKnown(i) == "subscriberCount" \in DOMAIN Sub(det.results[i], "statistics")
CountOf(i) == int(det.results[i].statistics.subscriberCount)
NameMatches(i) ==
    any_match(EXCLUDE_NAME_PATTERNS, Text(Sub(det.results[i], "snippet"), "title"),
              Text(Sub(det.results[i], "snippet"), "description"))

\* C17: a record whose count is unknown, below MIN_SUBSCRIBERS or above
\* MAX_SUBSCRIBERS gives no row, and no lookup decides otherwise; a record
\* with a count of MIN_SUBSCRIBERS or MAX_SUBSCRIBERS is not rejected for its
\* count; every row has a count within the two bounds.
C17_SubscriberRange ==
    /\ \A i \in 1..Len(seen) :
          /\ (~CountKnown(i) \/ CountOf(i) < MIN_SUBSCRIBERS \/ CountOf(i) > MAX_SUBSCRIBERS)
                => (seen[i].row = None /\ ~InRows(i))
          /\ (CountKnown(i) /\ CountOf(i) \in {MIN_SUBSCRIBERS, MAX_SUBSCRIBERS}
                /\ ~NameMatches(i))
                => seen[i].verdict \notin {"no count", "out of range"}
    /\ \A k \in 1..Len(results) :
          MIN_SUBSCRIBERS <= results[k].subscribers /\ results[k].subscribers <= MAX_SUBSCRIBERS
    /\ csv # None =>
          \A k \in 1..Len(csv[1]) :
              MIN_SUBSCRIBERS <= csv[1][k].subscribers /\ csv[1][k].subscribers <= MAX_SUBSCRIBERS

\* A run has ended in which a record with a count of MIN_SUBSCRIBERS gave a
\* row and a record with a count above MAX_SUBSCRIBERS and a recent upload
\* was rejected.
C17_Witness ==
    /\ pc = "done" /\ Len(seen) = 2 /\ Len(results) = 1
    /\ \E i, j \in 1..2 :
          /\ seen[i].verdict = "accepted" /\ CountOf(i) = MIN_SUBSCRIBERS
          /\ CountKnown(j) /\ CountOf(j) = MAX_SUBSCRIBERS + 1
          /\ seen[j].verdict = "out of range"
          /\ Held(det.results[j]) # None

-----------------------------------------------------------------------------
(* Claims about the order of the requests of a run *)

\* The playlistItems calls made for the i-th detail record.
Lookups(i) ==
    {k \in 1..Len(calls) : calls[k].site = "playlistItems" /\ calls[k].unit = i}

\* C18: a playlistItems call is made for a detail record only when the
\* record has passed the name exclusion and the subscriber range, at most
\* one per record, and none for a record an earlier predicate rejected.
C18_LookupAfterPredicates ==
    det # None =>
        /\ \A k \in 1..Len(calls) :
              calls[k].site = "playlistItems" =>
                  LET i == calls[k].unit IN
                  /\ i \in 1..Len(seen)
                  /\ ~NameMatches(i)
                  /\ CountKnown(i)
                  /\ MIN_SUBSCRIBERS <= CountOf(i) /\ CountOf(i) <= MAX_SUBSCRIBERS
        /\ \A i \in 1..Len(det.results) : Cardinality(Lookups(i)) <= 1
        /\ \A i \in 1..Len(seen) :
              (NameMatches(i) \/ ~CountKnown(i) \/ CountOf(i) < MIN_SUBSCRIBERS
                  \/ CountOf(i) > MAX_SUBSCRIBERS) => Lookups(i) = {}

\* The loop rejected its first record for its name without a lookup and
\* made one lookup for its second.
C18_Witness ==
    /\ Len(seen) = 2
    /\ seen[1].verdict = "excluded" /\ Lookups(1) = {}
    /\ Cardinality(Lookups(2)) = 1

\* The ids the first j keywords of the call m find.
PrefixIds(m, j) == UNION {ms.found[m.keywords[i]] : i \in 1..j}
Reached(m, j) == Cardinality(PrefixIds(m, j)) >= STOP_AFTER_N_RESULTS * 3

\* What C19 says of one call m, which has searched the first m.k keywords of
\* its list.
StopsAtThreshold(m) ==
    /\ \A j \in 1..(m.k - 1) : ~Reached(m, j)
    /\ m.all_ids = PrefixIds(m, m.k)
    /\ m.pc = "returned" => (m.k = Len(m.keywords) \/ Reached(m, m.k))
    /\ (m.pc = "returned" /\ \A j \in 1..Len(m.keywords) : ~Reached(m, j))
          => m.k = Len(m.keywords)
    /\ m.pc = "returned" =>
          \A l \in MultiReturns(m) :
              /\ {l[i] : i \in 1..Len(l)} = PrefixIds(m, m.k)
              /\ \A i, j \in 1..Len(l) : i # j => l[i] # l[j]

\* C19 (SpecMulti): search_channels_multi searches the keywords in list
\* order, none after the first one at whose end the ids found so far number
\* STOP_AFTER_N_RESULTS * 3 or more, all of them when that never happens, and
\* the list it returns holds each id found once.
C19_NoSearchPastThreshold == StopsAtThreshold(ms.a) /\ StopsAtThreshold(ms.b)

\* The first call returned after two of its three keywords, the threshold
\* reached; the second call searched all three.
C19_Witness ==
    /\ BothReturned
    /\ ms.a.k = 2 /\ Reached(ms.a, 2) /\ ~Reached(ms.a, 1)
    /\ ms.b.k = 3

\* The number of rows the first i passes of the filter loop accepted.
AcceptedUpTo(i) == Cardinality({k \in 1..i : seen[k].verdict = "accepted"})

\* C20: in main_deck-brush.py the result never has more than
\* STOP_AFTER_N_RESULTS rows, and once that many rows are accepted the loop
\* takes no further record and makes no further playlistItems call.
C20_DeckStopsAtCap ==
    script = DeckBrush =>
        /\ Len(results) <= STOP_AFTER_N_RESULTS
        /\ csv # None => Len(csv[1]) <= STOP_AFTER_N_RESULTS
        /\ \A i \in 1..Len(seen) :
              AcceptedUpTo(i) >= STOP_AFTER_N_RESULTS =>
                  /\ Len(seen) = i /\ pc # "filter"
                  /\ \A k \in 1..Len(calls) :
                        calls[k].site = "playlistItems" => calls[k].unit <= i

\* A run of main_deck-brush.py has ended that accepted STOP_AFTER_N_RESULTS
\* rows and left a record with a recent upload untaken.
C20_Witness ==
    /\ script = DeckBrush /\ pc = "done"
    /\ Len(results) = STOP_AFTER_N_RESULTS
    /\ Len(seen) < Len(det.results)
    /\ Held(det.results[Len(det.results)]) # None

-----------------------------------------------------------------------------
(* Claims about the recency cutoff, checked under Spec *)

\* The cutoff is there before any request of discovery, detail lookup or
\* filtering is made.
CutoffBeforeWork ==
    /\ pc \in {"start", "sanity", "exited"} => latest_after_dt = None
    /\ (\E k \in 1..Len(calls) : calls[k].site # "sanity") => latest_after_dt # None

\* Every record whose lookup gave a timestamp was judged against the cutoff.
CutoffJudgedAll ==
    \A i \in 1..Len(seen) :
        (seen[i].lookup # None /\ seen[i].lookup[1].value # None) =>
            /\ seen[i].verdict \in {"stale", "accepted"}
            /\ seen[i].verdict = "stale"
                  <=> Instant[seen[i].lookup[1].value[1]] < latest_after_dt[1]

\* C21: the cutoff is computed once, before discovery starts; no later step
\* changes it; every record of the run is judged against that one value.
C21_OneCutoffPerRun ==
    [][/\ latest_after_dt # None => latest_after_dt' = latest_after_dt
       /\ latest_after_dt' # latest_after_dt => (pc = "sanity" /\ calls' = <<calls'[1]>>)
       /\ CutoffBeforeWork'
       /\ CutoffJudgedAll']_vars

\* The filter loop has ended, having judged two records with an upload of
\* the later date both a day too old.
C21_Witness ==
    /\ pc = "output" /\ Len(seen) = 2
    /\ latest_after_dt = Some(518)
    /\ \A i \in 1..2 :
          /\ seen[i].verdict = "stale"
          /\ seen[i].lookup[1].value = Some("2024-06-01T00:00:00Z")

=============================================================================
